---- MODULE Spec2Model ----
(***************************************************************************)
(* A model of hw1/hw1-q2.py: the LinearRegression and NeuralRegression     *)
(* models, the shared train_epoch / evaluate of _RegressionModel, and the  *)
(* training loop of main().                                                *)
(*                                                                         *)
(* Numbers.  The program computes in IEEE binary64.  The model keeps the   *)
(* rounding (to nearest, ties to even, with gradual underflow) and scales  *)
(* the format down: a significand of Prec bits (53 in binary64) and a      *)
(* smallest positive magnitude of 2^-Frac (2^-1074 in binary64).  A float  *)
(* is represented by the integer that counts its multiples of 2^-Frac, so  *)
(* 1.0 is Pow2(Frac).  Overflow to infinity is not modelled: the inputs    *)
(* keep every value far below the largest float.                           *)
(*                                                                         *)
(* Arrays.  A numpy array is a record [shape, data] with the data in row   *)
(* major order; a Python float / numpy scalar is the array of shape <<>>.  *)
(* Arrays that the program aliases live in a heap and are named by their   *)
(* index in it (a reference).                                              *)
(***************************************************************************)
EXTENDS Integers, Sequences, FiniteSets, TLC

\* ---------------------------------------------------------------- bounds
\* significand bits of the scaled-down float format
Prec == 4
\* fraction bits: the smallest positive float is 2^-Frac
Frac == 4
\* largest number of epochs main() is run for (opt.epochs)
MaxEpochs == 2
\* largest number of method calls a client of the model API makes
MaxCalls == 2

\* ---------------------------------------------------------------- floats
RECURSIVE Pow2(_)
Pow2(k) == IF k <= 0 THEN 1 ELSE 2 * Pow2(k - 1)

RECURSIVE BitLen(_)
BitLen(n) == IF n = 0 THEN 0 ELSE 1 + BitLen(n \div 2)

Abs(n) == IF n < 0 THEN -n ELSE n

Max(a, b) == IF a >= b THEN a ELSE b

\* p / d rounded to the nearest integer, ties to the even one (p >= 0, d > 0)
RoundHalfEven(p, d) ==
    LET q == p \div d
        r == p % d
    IN  IF 2 * r > d \/ (2 * r = d /\ q % 2 = 1) THEN q + 1 ELSE q

\* the float nearest to the rational n / d (d > 0), n / d counting units of
\* 2^-Frac: at most Prec significant bits, and a multiple of 2^-Frac
RoundQ(n, d) ==
    LET a == Abs(n)
        k == Max(0, BitLen(a \div d) - Prec)
        m == RoundHalfEven(a, d * Pow2(k))
    IN  (IF n < 0 THEN -1 ELSE 1) * m * Pow2(k)

One == Pow2(Frac)

Two == 2 * Pow2(Frac)

FAdd(a, b) == RoundQ(a + b, 1)

FSub(a, b) == RoundQ(a - b, 1)

FMul(a, b) == RoundQ(a * b, Pow2(Frac))

FDiv(a, b) == IF b < 0 THEN RoundQ((-a) * Pow2(Frac), -b)
                       ELSE RoundQ(a * Pow2(Frac), b)

RECURSIVE ISqrt(_)
ISqrt(n) == IF n < 2 THEN n
            ELSE LET s == 2 * ISqrt(n \div 4)
                 IN  IF (s + 1) * (s + 1) <= n THEN s + 1 ELSE s

\* the float nearest to the square root of a (a >= 0)
FSqrt(a) ==
    LET A == a * Pow2(Frac)
        k == Max(0, BitLen(ISqrt(A)) - Prec)
        t == ISqrt(A \div Pow2(2 * k))
        c == Pow2(2 * k) * (2 * t + 1) * (2 * t + 1)
    IN  (IF 4 * A > c \/ (4 * A = c /\ t % 2 = 1) THEN t + 1 ELSE t) * Pow2(k)

FMax(a, b) == IF a >= b THEN a ELSE b

\* ---------------------------------------------------------------- arrays
Arr(shape, data) == [shape |-> shape, data |-> data]

Sc(v) == Arr(<<>>, <<v>>)

Vec(data) == Arr(<<Len(data)>>, data)

Rank(a) == Len(a.shape)

Size(a) == Len(a.data)

\* rows and columns of a seen as a matrix (numpy pads a shape with 1s on the left)
Rows2(a) == IF Rank(a) < 2 THEN 1 ELSE a.shape[1]

Cols2(a) == IF Rank(a) = 0 THEN 1 ELSE a.shape[Rank(a)]

\* element (i, j) of a, an axis of length 1 being repeated (broadcasting)
At2(a, i, j) ==
    a.data[((IF Rows2(a) = 1 THEN 1 ELSE i) - 1) * Cols2(a)
           + (IF Cols2(a) = 1 THEN 1 ELSE j)]

\* the arithmetic operator op of two floats
FOp(op, a, b) ==
    CASE op = "+" -> FAdd(a, b)
      [] op = "-" -> FSub(a, b)
      [] op = "*" -> FMul(a, b)
      [] op = "/" -> FDiv(a, b)

\* a op b, elementwise with broadcasting: a new array
Broadcast(op, a, b) ==
    LET R == Max(Rows2(a), Rows2(b))
        C == Max(Cols2(a), Cols2(b))
        rank == Max(Rank(a), Rank(b))
    IN  Arr(IF rank = 0 THEN <<>> ELSE IF rank = 1 THEN <<C>> ELSE <<R, C>>,
            [k \in 1..(R * C) |->
                FOp(op, At2(a, ((k - 1) \div C) + 1, ((k - 1) % C) + 1),
                     At2(b, ((k - 1) \div C) + 1, ((k - 1) % C) + 1))])

\* a op= b: the result is written into a's own buffer, so it has a's shape
InPlace(op, a, b) ==
    Arr(a.shape,
        [k \in 1..Size(a) |->
            FOp(op, a.data[k],
                 At2(b, ((k - 1) \div Cols2(a)) + 1, ((k - 1) % Cols2(a)) + 1))])

\* sum of f[1] .. f[K], accumulated left to right in floats
RECURSIVE FSum(_, _)
FSum(f, K) == IF K = 0 THEN 0 ELSE FAdd(FSum(f, K - 1), f[K])

\* np.dot: a scalar operand scales; otherwise the sum over a's last axis and
\* b's first axis (second to last for a matrix)
np_dot(a, b) ==
    IF Rank(a) = 0 \/ Rank(b) = 0 THEN Broadcast("*", a, b)
    ELSE
        LET K  == Cols2(a)
            R  == Rows2(a)
            C  == IF Rank(b) = 2 THEN b.shape[2] ELSE 1
            ae(i, k) == a.data[(i - 1) * K + k]
            be(k, j) == b.data[(k - 1) * C + j]
            entry(i, j) == FSum([k \in 1..K |-> FMul(ae(i, k), be(k, j))], K)
        IN  Arr((IF Rank(a) = 2 THEN <<R>> ELSE <<>>)
                    \o (IF Rank(b) = 2 THEN <<C>> ELSE <<>>),
                [n \in 1..(R * C) |-> entry(((n - 1) \div C) + 1, ((n - 1) % C) + 1)])

\* v[:, None] of a vector
NewAxis(v) == Arr(<<v.shape[1], 1>>, v.data)

\* m.T of a matrix
Transpose(m) ==
    LET R == m.shape[1]
        C == m.shape[2]
    IN  Arr(<<C, R>>,
            [n \in 1..(R * C) |-> m.data[((n - 1) % R) * C + ((n - 1) \div R) + 1]])

\* a.reshape(-1,)
Reshape1(a) == Arr(<<Size(a)>>, a.data)

\* np.maximum(a, 0)
Maximum0(a) == Arr(a.shape, [k \in 1..Size(a) |-> FMax(a.data[k], 0)])

\* (a > 0), as the 1.0 / 0.0 it stands for in a product with floats
Greater0(a) == Arr(a.shape, [k \in 1..Size(a) |-> IF a.data[k] > 0 THEN One ELSE 0])

\* np.zeros(shape)
Zeros(shape) ==
    Arr(shape, [k \in 1..(IF Len(shape) = 0 THEN 1
                          ELSE IF Len(shape) = 1 THEN shape[1]
                          ELSE shape[1] * shape[2]) |-> 0])

\* a[i]: row i of a matrix (a vector), entry i of a vector (a scalar)
Row(a, i) ==
    IF Rank(a) = 2
    THEN Arr(<<a.shape[2]>>, [j \in 1..a.shape[2] |-> a.data[(i - 1) * a.shape[2] + j]])
    ELSE Sc(a.data[i])

\* a[order]: the rows of a in the order given (order: a sequence of row numbers)
Take(a, order) ==
    LET C == IF Rank(a) = 2 THEN a.shape[2] ELSE 1
    IN  Arr(<<Len(order)>> \o (IF Rank(a) = 2 THEN <<C>> ELSE <<>>),
            [n \in 1..(Len(order) * C) |->
                a.data[(order[((n - 1) \div C) + 1] - 1) * C + ((n - 1) % C) + 1]])

\* np.random.permutation(n): every ordering of the row numbers 1..n
np_random_permutation(n) ==
    {p \in [1..n -> 1..n] : \A i, j \in 1..n : p[i] = p[j] => i = j}

\* ------------------------------------------------- the regression models
\* A model object: kind "linear" holds the reference w; kind "nn" holds the
\* lists weights and biases of references, one per layer.

\* LinearRegression.__init__
LinearRegression_init(h, n_features) ==
    [heap  |-> Append(h, Zeros(<<n_features>>)),
     model |-> [kind |-> "linear", w |-> Len(h) + 1, weights |-> <<>>, biases |-> <<>>]]

\* NeuralRegression.__init__; W0 (n_features x hidden) and W1 (hidden x 1) are
\* the draws of np.random.normal
NeuralRegression_init(h, W0, W1) ==
    [heap  |-> h \o <<W0, W1, Zeros(<<W0.shape[2]>>), Zeros(<<1>>)>>,
     model |-> [kind |-> "nn", w |-> 0,
                weights |-> <<Len(h) + 1, Len(h) + 2>>,
                biases  |-> <<Len(h) + 3, Len(h) + 4>>]]

\* LinearRegression.predict
LinearRegression_predict(h, m, X) == np_dot(X, h[m.w])

\* fault: the factor 2 of the derivative forgotten
grad_loss_unscaled(yhat, y_i) == Broadcast("-", yhat, y_i)

\* the gradient dL/dy_hat = 2 * (y_hat - y) of the squared error
grad_loss(yhat, y_i) == Broadcast("*", Sc(Two), Broadcast("-", yhat, y_i))

\* fault: np.outer for np.dot, a (1 x n_features) gradient that broadcasts w
LinearRegression_new_w_outer(h, m, x_i, y_i, learning_rate) ==
    Broadcast("-", h[m.w],
              Broadcast("*", Sc(learning_rate),
                        np_dot(NewAxis(Reshape1(grad_loss(LinearRegression_predict(h, m, x_i), y_i))),
                               Transpose(NewAxis(x_i)))))

\* fault: the step taken up the gradient
LinearRegression_new_w_ascent(h, m, x_i, y_i, learning_rate) ==
    Broadcast("+", h[m.w],
              Broadcast("*", Sc(learning_rate),
                        np_dot(grad_loss(LinearRegression_predict(h, m, x_i), y_i), x_i)))

\* the array LinearRegression.update_weight computes for self.w
LinearRegression_new_w(h, m, x_i, y_i, learning_rate) ==
    Broadcast("-", h[m.w],
              Broadcast("*", Sc(learning_rate),
                        np_dot(grad_loss(LinearRegression_predict(h, m, x_i), y_i), x_i)))

\* variant: self.w -= ..., written into the array self.w already names
LinearRegression_update_weight_in_place(h, m, x_i, y_i, learning_rate) ==
    [heap  |-> [h EXCEPT ![m.w] = LinearRegression_new_w(h, m, x_i, y_i, learning_rate)],
     model |-> m,
     ret   |-> <<m.w>>]

\* LinearRegression.update_weight: self.w is bound to the new array, which is
\* also the value returned
LinearRegression_update_weight(h, m, x_i, y_i, learning_rate) ==
    [heap  |-> Append(h, LinearRegression_new_w(h, m, x_i, y_i, learning_rate)),
     model |-> [m EXCEPT !.w = Len(h) + 1],
     ret   |-> <<Len(h) + 1>>]

\* fault: (h >= 0), a derivative of 1 at 0
relu_grad_at_zero(hid) == Arr(hid.shape, [k \in 1..Size(hid) |-> IF hid.data[k] >= 0 THEN One ELSE 0])

\* the ReLU derivative the backward pass multiplies by: (h > 0)
relu_grad(hid) == Greater0(hid)

\* the forward pass: z of layer i for input x (a vector or a matrix of rows);
\* the input of layer i is x for the first layer, np.maximum(z, 0) of the
\* layer before otherwise
RECURSIVE layer_z(_, _, _, _)
layer_z(h, m, x, i) ==
    Broadcast("+",
              np_dot(IF i = 1 THEN x ELSE Maximum0(layer_z(h, m, x, i - 1)), h[m.weights[i]]),
              h[m.biases[i]])

\* the pre-activations z of every layer for input x
forward(h, m, x) == [i \in 1..Len(m.weights) |-> layer_z(h, m, x, i)]

\* the backward pass: grad_z, the gradient dL/dz of layer i
RECURSIVE grad_z(_, _, _, _, _)
grad_z(h, m, x_i, y_i, i) ==
    IF i = Len(m.weights) THEN grad_loss(layer_z(h, m, x_i, i), y_i)
    ELSE Broadcast("*",
                   np_dot(grad_z(h, m, x_i, y_i, i + 1), Transpose(h[m.weights[i + 1]])),
                   relu_grad(Maximum0(layer_z(h, m, x_i, i))))

\* the gradients of the backward pass: [weights, biases], one entry per layer
backward(h, m, x_i, y_i) ==
    LET L == Len(m.weights)
        z == forward(h, m, x_i)
        hin(i) == IF i = 1 THEN x_i ELSE Maximum0(z[i - 1])
    IN  [weights |-> [i \in 1..L |->
                        np_dot(NewAxis(hin(i)), Transpose(NewAxis(grad_z(h, m, x_i, y_i, i))))],
         biases  |-> [i \in 1..L |-> grad_z(h, m, x_i, y_i, i)]]

\* the updates self.weights[i] -= ..., self.biases[i] -= ... of the layers
\* 1..i, each written into the array the model already holds
RECURSIVE apply_updates(_, _, _, _, _)
apply_updates(h, m, g, learning_rate, i) ==
    IF i = 0 THEN h
    ELSE LET h1 == [apply_updates(h, m, g, learning_rate, i - 1) EXCEPT ![m.weights[i]] =
                       InPlace("-", @, Broadcast("*", Sc(learning_rate), g.weights[i]))]
         IN  [h1 EXCEPT ![m.biases[i]] =
                       InPlace("-", @, Broadcast("*", Sc(learning_rate), g.biases[i]))]

\* NeuralRegression.update_weight: every parameter array is updated in place,
\* after all the gradients have been computed; returns the two lists
NeuralRegression_update_weight(h, m, x_i, y_i, learning_rate) ==
    [heap  |-> apply_updates(h, m, backward(h, m, x_i, y_i), learning_rate, Len(m.weights)),
     model |-> m,
     ret   |-> m.weights \o m.biases]

\* NeuralRegression.predict
NeuralRegression_predict(h, m, X) == Reshape1(forward(h, m, X)[Len(m.weights)])

\* self.predict(X), dispatched on the class of the model
predict(h, m, X) ==
    IF m.kind = "linear" THEN LinearRegression_predict(h, m, X)
    ELSE NeuralRegression_predict(h, m, X)

\* self.update_weight(x_i, y_i, learning_rate=...), dispatched on the class
update_weight(h, m, x_i, y_i, learning_rate) ==
    IF m.kind = "linear" THEN LinearRegression_update_weight(h, m, x_i, y_i, learning_rate)
    ELSE NeuralRegression_update_weight(h, m, x_i, y_i, learning_rate)

\* fault: the last row left out of the sum
squared_error_skip_last(yhat, y) ==
    LET error == Broadcast("-", yhat, y)
        head == Vec(SubSeq(error.data, 1, Size(error) - 1))
    IN  IF Size(error) = 1 THEN Sc(0) ELSE np_dot(head, head)

\* the squared error np.dot(error, error) of evaluate
squared_error(yhat, y) ==
    LET error == Broadcast("-", yhat, y)
    IN  np_dot(error, error)

\* _RegressionModel.evaluate: the root of the mean squared error
evaluate(h, m, X, y) ==
    LET mean_squared_error ==
            Broadcast("/", squared_error(predict(h, m, X), y), Sc(y.shape[1] * One))
    IN  FSqrt(mean_squared_error.data[1])

\* distance: np.linalg.norm(analytic_solution - model_params)
distance(analytic, params) ==
    LET d == Broadcast("-", analytic, params)
    IN  FSqrt(np_dot(d, d).data[1])

\* the values of the model's parameters: w, or W0, b0, W1, b1, ...
Params(h, m) ==
    IF m.kind = "linear" THEN <<h[m.w]>>
    ELSE [k \in 1..(2 * Len(m.weights)) |->
            IF k % 2 = 1 THEN h[m.weights[(k + 1) \div 2]] ELSE h[m.biases[k \div 2]]]

\* ------------------------------------------------------------ the inputs
\* utils.load_regression_data(bias): the train and test partitions, with a
\* column of 1.0 appended to each design matrix when bias is set
add_bias_column(X) ==
    LET R == X.shape[1]
        C == X.shape[2]
    IN  Arr(<<R, C + 1>>,
            [n \in 1..(R * (C + 1)) |->
                IF (n - 1) % (C + 1) = C THEN One
                ELSE X.data[((n - 1) \div (C + 1)) * C + ((n - 1) % (C + 1)) + 1]])

load_regression_data(raw, bias) ==
    [train |-> <<IF bias THEN add_bias_column(raw.train[1]) ELSE raw.train[1], raw.train[2]>>,
     test  |-> <<IF bias THEN add_bias_column(raw.test[1]) ELSE raw.test[1], raw.test[2]>>]

\* a matrix / vector of the floats n * 1.0 for the integers n given
MatOf(R, C, ints) == Arr(<<R, C>>, [k \in 1..(R * C) |-> ints[k] * One])

VecOf(ints) == Vec([k \in 1..Len(ints) |-> ints[k] * One])

\* the data sets the loader may return (two raw features)
RawDataSets ==
    { [train |-> <<MatOf(3, 2, <<1, 0, 0, 1, 1, 1>>), VecOf(<<2, 3, 4>>)>>,
       test  |-> <<MatOf(2, 2, <<2, 1, 0, 0>>), VecOf(<<5, 1>>)>>],
      [train |-> <<MatOf(2, 2, <<1, 1, -1, -1>>), VecOf(<<3, -1>>)>>,
       test  |-> <<MatOf(3, 2, <<1, 0, 0, 2, 1, 1>>), VecOf(<<2, 2, 3>>)>>] }

\* the learning rates of -learning_rate: 1/16 and 1/8
LearningRates == {One \div 16, One \div 8}

\* the draws of np.random.normal(0.1, 0.1) for (W0, W1): hidden sizes 1, 2, 3
InitialWeights ==
    { <<Arr(<<2, 1>>, <<One \div 2, One \div 2>>), Arr(<<1, 1>>, <<One>>)>>,
      <<Arr(<<2, 2>>, <<One \div 4, -(One \div 8), One \div 8, One \div 4>>),
        Arr(<<2, 1>>, <<One \div 4, One \div 8>>)>>,
      <<Arr(<<2, 3>>, <<One \div 8, One \div 4, -(One \div 8), One \div 4, 0, One \div 8>>),
        Arr(<<3, 1>>, <<One \div 4, -(One \div 8), One \div 8>>)>> }

\* solve_analytically: pinv(X^T X) X^T y is the least-norm vector w with
\* X^T (X w - y) = 0; the search is over vectors of small whole numbers, which
\* hold the solution for the data sets above
AnalyticGrid == {n * One : n \in -2..3}

RECURSIVE ISum(_, _)
ISum(f, K) == IF K = 0 THEN 0 ELSE ISum(f, K - 1) + f[K]

solve_analytically(X, y) ==
    LET R == X.shape[1]
        C == X.shape[2]
        residual(w, i) == ISum([k \in 1..C |-> X.data[(i - 1) * C + k] * w[k]], C)
                              - y.data[i] * One
        normal(w) == \A j \in 1..C :
                        ISum([i \in 1..R |-> X.data[(i - 1) * C + j] * residual(w, i)], R) = 0
        norm2(w) == ISum([k \in 1..C |-> w[k] * w[k]], C)
        W == {w \in [1..C -> AnalyticGrid] : normal(w)}
    IN  Vec(CHOOSE w \in W : \A v \in W : norm2(w) <= norm2(v))

\* --------------------------------------------------------------- state
VARIABLES
    pc,                 \* where the program is
    opt,                \* the parsed options: model, epochs, learning_rate
    data,               \* what load_regression_data returned
    train_X, train_y,   \* main's training arrays (rebound by every shuffle)
    test_X, test_y,
    analytic_solution,  \* <<>> for None, <<w>> otherwise
    heap,               \* the parameter arrays, by reference
    model,              \* the model object
    epoch,              \* iterations of the training loop begun
    train_losses, test_losses, dist_opt,
    model_params,       \* main's local: <<>> before its first assignment, <<ref>>
    frame,              \* the frame of a running train_epoch: <<>> or <<[X, y, lr, i, back]>>
    last,               \* the last call a client of the model made, with its result
    n_calls,            \* the calls the client has made
    calls,              \* every update_weight call so far: arguments, parameters before and after
    events              \* what main has done so far, each with the number of updates before it

vars == <<pc, opt, data, train_X, train_y, test_X, test_y, analytic_solution, heap,
          model, epoch, train_losses, test_losses, dist_opt, model_params, frame,
          last, n_calls, calls, events>>

\* last, before any call: op names the method; X, y, lr are its arguments; pre,
\* pre_w, pre_heap and pre_calls are the parameter values, model.w, the heap
\* and the number of update_weight calls before it;
\* ret is what it returned (references, an array or a float)
NoCall == [op |-> "none", X |-> Sc(0), y |-> Sc(0), lr |-> 0, pre |-> <<>>,
           pre_w |-> 0, pre_heap |-> <<>>, pre_calls |-> 0, ret_refs |-> <<>>,
           ret_arr |-> Sc(0), ret_val |-> 0]

\* main() up to the training loop: options parsed, data loaded, the analytic
\* solution computed for the linear model only, the model constructed
InitMain ==
    \E name \in {"linear_regression", "nn"}, epochs \in 1..MaxEpochs,
       lr \in LearningRates, raw \in RawDataSets, W \in InitialWeights :
        LET d == load_regression_data(raw, name # "nn")
            new == IF name = "linear_regression"
                   THEN LinearRegression_init(<<>>, d.train[1].shape[2])
                   ELSE NeuralRegression_init(<<>>, W[1], W[2])
        IN  /\ opt = [model |-> name, epochs |-> epochs, learning_rate |-> lr,
                      hidden_size |-> W[1].shape[2]]
            /\ data = d
            /\ train_X = d.train[1]
            /\ train_y = d.train[2]
            /\ test_X = d.test[1]
            /\ test_y = d.test[2]
            /\ analytic_solution = IF name = "linear_regression"
                                   THEN <<solve_analytically(d.train[1], d.train[2])>>
                                   ELSE <<>>
            /\ heap = new.heap
            /\ model = new.model
            /\ pc = "loop"
            /\ epoch = 0
            /\ train_losses = <<>>
            /\ test_losses = <<>>
            /\ dist_opt = <<>>
            /\ model_params = <<>>
            /\ frame = <<>>
            /\ last = NoCall
            /\ n_calls = 0
            /\ calls = <<>>
            /\ events = <<>>

Event(name) == Append(events, [ev |-> name, at |-> Len(calls)])

\* fault: train_y left in its old order
reorder_y_unshuffled(y, train_order) == y

\* train_X[train_order] and train_y[train_order]
reorder_X(X, train_order) == Take(X, train_order)

reorder_y(y, train_order) == Take(y, train_order)

\* lines 233-238: the loop draws a permutation, reorders both training arrays
\* by it and calls train_epoch with the learning rate of the options
Shuffle ==
    /\ pc = "loop"
    /\ epoch < opt.epochs
    /\ \E train_order \in np_random_permutation(train_X.shape[1]) :
          /\ train_X' = reorder_X(train_X, train_order)
          /\ train_y' = reorder_y(train_y, train_order)
    /\ epoch' = epoch + 1
    /\ frame' = <<[X |-> train_X', y |-> train_y', lr |-> opt.learning_rate,
                   i |-> 0, back |-> "eval_train"]>>
    /\ pc' = "train_epoch"
    /\ events' = Event("shuffle")
    /\ UNCHANGED <<opt, data, test_X, test_y, analytic_solution, heap, model,
                   train_losses, test_losses, dist_opt, model_params, last, n_calls, calls>>

\* fault: the rows taken last to first
train_epoch_row_reversed(f) == Len(f.y.data) - f.i

\* the row train_epoch's loop handles in its iteration number i (from 0)
train_epoch_row(f) == f.i + 1

\* the keyword arguments train_epoch passes on to update_weight
train_epoch_kwargs(f) == f.lr

\* lines 43-44: one iteration of train_epoch's loop over zip(X, y)
TrainStep ==
    /\ pc = "train_epoch"
    /\ frame[1].i < Len(frame[1].y.data)
    /\ LET f == frame[1]
           x_i == Row(f.X, train_epoch_row(f))
           y_i == Row(f.y, train_epoch_row(f))
           r == update_weight(heap, model, x_i, y_i, train_epoch_kwargs(f))
       IN  /\ heap' = r.heap
           /\ model' = r.model
           /\ calls' = Append(calls, [x |-> x_i, y |-> y_i, lr |-> train_epoch_kwargs(f),
                                      pre |-> Params(heap, model),
                                      post |-> Params(r.heap, r.model)])
    /\ frame' = <<[frame[1] EXCEPT !.i = @ + 1]>>
    /\ events' = Event("update_weight")
    /\ UNCHANGED <<pc, opt, data, train_X, train_y, test_X, test_y, analytic_solution,
                   epoch, train_losses, test_losses, dist_opt, model_params, last, n_calls>>

\* fault: the loop may stop one example short
TrainEpochReturn_early ==
    /\ pc = "train_epoch"
    /\ frame[1].i >= Len(frame[1].y.data) - 1
    /\ pc' = frame[1].back
    /\ frame' = <<>>
    /\ UNCHANGED <<opt, data, train_X, train_y, test_X, test_y, analytic_solution, heap,
                   model, epoch, train_losses, test_losses, dist_opt, model_params,
                   last, n_calls, calls, events>>

\* train_epoch returns when zip(X, y) is exhausted
TrainEpochReturn ==
    /\ pc = "train_epoch"
    /\ frame[1].i >= Len(frame[1].y.data)
    /\ pc' = frame[1].back
    /\ frame' = <<>>
    /\ UNCHANGED <<opt, data, train_X, train_y, test_X, test_y, analytic_solution, heap,
                   model, epoch, train_losses, test_losses, dist_opt, model_params,
                   last, n_calls, calls, events>>

\* fault: the series replaced by its newest entry
EvalTrain_overwrite ==
    /\ pc = "eval_train"
    /\ train_losses' = <<evaluate(heap, model, train_X, train_y)>>
    /\ pc' = "eval_test"
    /\ events' = Event("evaluate_train")
    /\ UNCHANGED <<opt, data, train_X, train_y, test_X, test_y, analytic_solution, heap,
                   model, epoch, test_losses, dist_opt, model_params, frame, last,
                   n_calls, calls>>

\* line 241
EvalTrain ==
    /\ pc = "eval_train"
    /\ train_losses' = Append(train_losses, evaluate(heap, model, train_X, train_y))
    /\ pc' = "eval_test"
    /\ events' = Event("evaluate_train")
    /\ UNCHANGED <<opt, data, train_X, train_y, test_X, test_y, analytic_solution, heap,
                   model, epoch, test_losses, dist_opt, model_params, frame, last,
                   n_calls, calls>>

\* line 242
EvalTest ==
    /\ pc = "eval_test"
    /\ test_losses' = Append(test_losses, evaluate(heap, model, test_X, test_y))
    /\ pc' = "dist"
    /\ events' = Event("evaluate_test")
    /\ UNCHANGED <<opt, data, train_X, train_y, test_X, test_y, analytic_solution, heap,
                   model, epoch, train_losses, dist_opt, model_params, frame, last,
                   n_calls, calls>>

\* lines 244-248, with an analytic solution: model_params = model.w, and the
\* distance is appended
RecordDist ==
    /\ pc = "dist"
    /\ analytic_solution # <<>>
    /\ model_params' = <<model.w>>
    /\ dist_opt' = Append(dist_opt, distance(analytic_solution[1], heap[model.w]))
    /\ pc' = "loop"
    /\ events' = Event("distance")
    /\ UNCHANGED <<opt, data, train_X, train_y, test_X, test_y, analytic_solution, heap,
                   model, epoch, train_losses, test_losses, frame, last, n_calls, calls>>

\* lines 244-248, without one
SkipDist ==
    /\ pc = "dist"
    /\ analytic_solution = <<>>
    /\ pc' = "loop"
    /\ UNCHANGED <<opt, data, train_X, train_y, test_X, test_y, analytic_solution, heap,
                   model, epoch, train_losses, test_losses, dist_opt, model_params,
                   frame, last, n_calls, calls, events>>

\* lines 250-252: the loop is over and the series go to the plots
Plot ==
    /\ pc = "loop"
    /\ epoch >= opt.epochs
    /\ pc' = "done"
    /\ UNCHANGED <<opt, data, train_X, train_y, test_X, test_y, analytic_solution, heap,
                   model, epoch, train_losses, test_losses, dist_opt, model_params,
                   frame, last, n_calls, calls, events>>

Next ==
    \/ Shuffle
    \/ TrainStep
    \/ TrainEpochReturn
    \/ EvalTrain
    \/ EvalTest
    \/ RecordDist
    \/ SkipDist
    \/ Plot

Spec == InitMain /\ [][Next]_vars

\* ------------------------------------------------ a client of the models
\* the smallest positive float
Tiny == One \div Pow2(Frac)

\* the examples (x, y) a client trains on, before the bias column
ClientExamples ==
    { <<VecOf(<<1, 2>>), Sc(5 * One)>>,
      <<VecOf(<<0, 0>>), Sc(Tiny)>>,
      <<VecOf(<<-1, 1>>), Sc(-One)>> }

\* the sets (X, y) a client predicts, evaluates and trains on
ClientSets ==
    { <<MatOf(1, 2, <<0, 0>>), Vec(<<Tiny>>)>>,
      <<MatOf(3, 2, <<1, 0, 1, 1, 0, 1>>), VecOf(<<1, 2, 2>>)>>,
      <<MatOf(2, 2, <<1, 0, 0, 1>>), VecOf(<<0, 0>>)>> }

\* the learning rates a client passes: 1/16 and 1/4
ClientRates == {One \div 16, One \div 4}

\* x with the bias term 1.0 appended
add_bias_term(x) == Vec(Append(x.data, One))

\* the n_features a client constructs the model with (the linear model's
\* examples carry the bias term)
n_features(name) == IF name = "linear_regression" THEN 3 ELSE 2

\* a newly constructed model, with nothing else having happened
InitAPI ==
    \E name \in {"linear_regression", "nn"}, W \in InitialWeights :
        LET new == IF name = "linear_regression"
                   THEN LinearRegression_init(<<>>, n_features(name))
                   ELSE NeuralRegression_init(<<>>, W[1], W[2])
        IN  /\ opt = [model |-> name, epochs |-> 0, learning_rate |-> 0,
                      hidden_size |-> W[1].shape[2]]
            /\ data = [train |-> <<>>, test |-> <<>>]
            /\ train_X = Sc(0)
            /\ train_y = Sc(0)
            /\ test_X = Sc(0)
            /\ test_y = Sc(0)
            /\ analytic_solution = <<>>
            /\ heap = new.heap
            /\ model = new.model
            /\ pc = "client"
            /\ epoch = 0
            /\ train_losses = <<>>
            /\ test_losses = <<>>
            /\ dist_opt = <<>>
            /\ model_params = <<>>
            /\ frame = <<>>
            /\ last = NoCall
            /\ n_calls = 0
            /\ calls = <<>>
            /\ events = <<>>

\* the design matrix or example as this model takes it
ForModel(X) ==
    IF model.kind # "linear" THEN X
    ELSE IF Rank(X) = 2 THEN add_bias_column(X) ELSE add_bias_term(X)

Called(op, X, y, lr) ==
    [NoCall EXCEPT !.op = op, !.X = X, !.y = y, !.lr = lr,
                   !.pre = Params(heap, model), !.pre_w = model.w, !.pre_heap = heap,
                   !.pre_calls = Len(calls)]

\* model.update_weight(x_i, y_i, learning_rate=lr)
CallUpdateWeight ==
    /\ pc = "client"
    /\ n_calls < MaxCalls
    /\ \E e \in ClientExamples, lr \in ClientRates :
          LET x_i == ForModel(e[1])
              r == update_weight(heap, model, x_i, e[2], lr)
          IN  /\ heap' = r.heap
              /\ model' = r.model
              /\ last' = [Called("update_weight", x_i, e[2], lr) EXCEPT !.ret_refs = r.ret]
              /\ calls' = Append(calls, [x |-> x_i, y |-> e[2], lr |-> lr,
                                         pre |-> Params(heap, model),
                                         post |-> Params(r.heap, r.model)])
    /\ n_calls' = n_calls + 1
    /\ UNCHANGED <<pc, opt, data, train_X, train_y, test_X, test_y, analytic_solution,
                   epoch, train_losses, test_losses, dist_opt, model_params, frame, events>>

\* model.predict(X)
CallPredict ==
    /\ pc = "client"
    /\ n_calls < MaxCalls
    /\ \E s \in ClientSets :
          last' = [Called("predict", ForModel(s[1]), s[2], 0)
                      EXCEPT !.ret_arr = predict(heap, model, ForModel(s[1]))]
    /\ n_calls' = n_calls + 1
    /\ UNCHANGED <<pc, opt, data, train_X, train_y, test_X, test_y, analytic_solution,
                   heap, model, epoch, train_losses, test_losses, dist_opt, model_params,
                   frame, calls, events>>

\* model.evaluate(X, y)
CallEvaluate ==
    /\ pc = "client"
    /\ n_calls < MaxCalls
    /\ \E s \in ClientSets :
          last' = [Called("evaluate", ForModel(s[1]), s[2], 0)
                      EXCEPT !.ret_val = evaluate(heap, model, ForModel(s[1]), s[2])]
    /\ n_calls' = n_calls + 1
    /\ UNCHANGED <<pc, opt, data, train_X, train_y, test_X, test_y, analytic_solution,
                   heap, model, epoch, train_losses, test_losses, dist_opt, model_params,
                   frame, calls, events>>

\* model.train_epoch(X, y, learning_rate=lr): the call; TrainStep and
\* TrainEpochReturn run it
CallTrainEpoch ==
    /\ pc = "client"
    /\ n_calls < MaxCalls
    /\ \E s \in ClientSets, lr \in ClientRates :
          /\ frame' = <<[X |-> ForModel(s[1]), y |-> s[2], lr |-> lr, i |-> 0,
                         back |-> "client"]>>
          /\ last' = Called("train_epoch", ForModel(s[1]), s[2], lr)
    /\ pc' = "train_epoch"
    /\ n_calls' = n_calls + 1
    /\ UNCHANGED <<opt, data, train_X, train_y, test_X, test_y, analytic_solution,
                   heap, model, epoch, train_losses, test_losses, dist_opt, model_params,
                   calls, events>>

NextAPI ==
    \/ CallUpdateWeight
    \/ CallPredict
    \/ CallEvaluate
    \/ CallTrainEpoch
    \/ TrainStep
    \/ TrainEpochReturn

SpecAPI == InitAPI /\ [][NextAPI]_vars

\* ============================================================ properties
\* ------------------------------------------------------- of main (Spec)
n_points == data.train[2].shape[1]

\* C1: after any number of epochs train_X and train_y are the original
\* training set reordered by one and the same permutation of its rows: row i
\* and target i belong to the same original example, none lost or duplicated.
C1_ShuffleKeepsPairs ==
    \E s \in np_random_permutation(n_points) :
        /\ train_X = Take(data.train[1], s)
        /\ train_y = Take(data.train[2], s)

\* two epochs have shuffled, and the rows are no longer in the loaded order
C1_Witness ==
    /\ epoch >= 2
    /\ train_X # data.train[1]
    /\ train_y # data.train[2]

\* the event main performs e-th: per epoch a shuffle, n_points updates, the
\* evaluation on the training set, the one on the test set and, for the linear
\* model, the distance; each with the number of updates made before it
ExpectedEvent(e) ==
    LET B == n_points + (IF opt.model = "linear_regression" THEN 4 ELSE 3)
        k == ((e - 1) \div B) + 1
        q == (e - 1) % B
    IN  IF q = 0 THEN [ev |-> "shuffle", at |-> (k - 1) * n_points]
        ELSE IF q <= n_points THEN [ev |-> "update_weight", at |-> (k - 1) * n_points + q - 1]
        ELSE IF q = n_points + 1 THEN [ev |-> "evaluate_train", at |-> k * n_points]
        ELSE IF q = n_points + 2 THEN [ev |-> "evaluate_test", at |-> k * n_points]
        ELSE [ev |-> "distance", at |-> k * n_points]

\* C5: every epoch shuffles, then makes one update per training example, then
\* evaluates on the training set, then on the test set, then (linear model
\* only) measures the distance; the k-th entry of each series is computed from
\* the parameters after exactly k * n_points updates.
C5_EpochOrder ==
    /\ \A e \in 1..Len(events) : events[e] = ExpectedEvent(e)
    /\ pc = "eval_test" =>
          /\ Len(calls) = epoch * n_points
          /\ Len(train_losses) = epoch
          /\ train_losses[epoch] = evaluate(heap, model, train_X, train_y)
    /\ pc = "dist" =>
          /\ Len(calls) = epoch * n_points
          /\ Len(test_losses) = epoch
          /\ test_losses[epoch] = evaluate(heap, model, test_X, test_y)
    /\ (pc = "loop" /\ epoch > 0 /\ opt.model = "linear_regression") =>
          /\ Len(calls) = epoch * n_points
          /\ Len(dist_opt) = epoch
          /\ dist_opt[epoch] = distance(analytic_solution[1], heap[model.w])

\* a run of two epochs of the linear model has ended
C5_Witness ==
    /\ pc = "done"
    /\ epoch >= 2
    /\ opt.model = "linear_regression"
    /\ Len(events) = epoch * (n_points + 4)
    /\ Len(dist_opt) = epoch

IsPrefix(a, b) == Len(a) <= Len(b) /\ SubSeq(b, 1, Len(a)) = a

SeriesLengths ==
    /\ pc \in {"loop", "done"} =>
          /\ Len(train_losses) = epoch
          /\ Len(test_losses) = epoch
          /\ Len(dist_opt) = IF opt.model = "linear_regression" THEN epoch ELSE 0
    /\ opt.model = "nn" => dist_opt = <<>>

\* C6: the series are append-only: after k completed epochs train_losses and
\* test_losses hold k entries each, no step changes or removes an entry, and
\* dist_opt holds k entries for the linear model and none ever for nn.
C6_AppendOnly ==
    /\ []SeriesLengths
    /\ [][/\ IsPrefix(train_losses, train_losses')
          /\ IsPrefix(test_losses, test_losses')
          /\ IsPrefix(dist_opt, dist_opt')]_vars

\* two epochs are complete for the linear model, with two entries per series
C6_Witness ==
    /\ pc = "loop"
    /\ epoch >= 2
    /\ opt.model = "linear_regression"
    /\ Len(train_losses) = 2 /\ Len(test_losses) = 2 /\ Len(dist_opt) = 2

\* ------------------------------------------- of the models (SpecAPI)
\* the product / sum of two floats is exact: nothing is rounded away
ExactMul(a, b) == FMul(a, b) * One = a * b

\* dot(a, b) of two sequences of floats, as the floats compute it
DotF(a, b) == FSum([k \in 1..Len(a) |-> FMul(a[k], b[k])], Len(a))

\* every product and every partial sum of dot(a, b) is exact
DotExact(a, b) ==
    /\ \A k \in 1..Len(a) : ExactMul(a[k], b[k])
    /\ \A n \in 1..Len(a) :
          FSum([k \in 1..Len(a) |-> FMul(a[k], b[k])], n)
              = ISum([k \in 1..Len(a) |-> FMul(a[k], b[k])], n)

\* the latest update_weight call
LastUpdate == calls[Len(calls)]

\* the states <<before, after call 1, ..., after call j>> of the sequential
\* updates over the first j rows of the latest train_epoch call
RECURSIVE SgdStates(_)
SgdStates(j) ==
    IF j = 0
    THEN << [heap |-> last.pre_heap, model |-> [model EXCEPT !.w = last.pre_w]] >>
    ELSE LET s == SgdStates(j - 1)
             nxt == update_weight(s[j].heap, s[j].model, Row(last.X, j), Row(last.y, j), last.lr)
         IN  Append(s, [heap |-> nxt.heap, model |-> nxt.model])

\* C2: train_epoch(X, y, learning_rate=lr) calls update_weight once per row,
\* in row order, with the same lr every time; the j-th call starts from the
\* parameters the (j-1)-th left (the first from those at the call), and its
\* result is the update computed from exactly those.
C2_TrainEpochSequential ==
    last.op = "train_epoch" =>
        LET X == last.X
            y == last.y
            n == y.shape[1]
            made == Len(calls) - last.pre_calls
            sgd == SgdStates(made)
        IN  /\ made = IF pc = "train_epoch" THEN frame[1].i ELSE n
            /\ \A j \in 1..made :
                  LET c == calls[last.pre_calls + j]
                  IN  /\ c.x = Row(X, j)
                      /\ c.y = Row(y, j)
                      /\ c.lr = last.lr
                      /\ c.pre = IF j = 1 THEN last.pre ELSE calls[last.pre_calls + j - 1].post
                      /\ c.post = Params(sgd[j + 1].heap, sgd[j + 1].model)
            /\ Params(heap, model) =
                  IF made = 0 THEN last.pre ELSE calls[last.pre_calls + made].post

\* a train_epoch over three rows has returned, and each of its three updates
\* changed the parameters
C2_Witness ==
    /\ last.op = "train_epoch"
    /\ pc = "client"
    /\ last.y.shape[1] = 3
    /\ Len(calls) = last.pre_calls + 3
    /\ \A j \in 1..3 : calls[last.pre_calls + j].post # calls[last.pre_calls + j].pre

\* the quantities of the claim C3, from the parameters <<W0, b0, W1, b1>>
\* before the call, the example (x, y) and the learning rate
NN_H(c) == Size(c.pre[2])

NN_z0(c, j) ==
    FAdd(FSum([k \in 1..Size(c.x) |-> FMul(c.x.data[k], c.pre[1].data[(k - 1) * NN_H(c) + j])],
              Size(c.x)),
         c.pre[2].data[j])

NN_h0(c, j) == FMax(NN_z0(c, j), 0)

NN_yhat(c) ==
    FAdd(FSum([j \in 1..NN_H(c) |-> FMul(NN_h0(c, j), c.pre[3].data[j])], NN_H(c)),
         c.pre[4].data[1])

NN_g1(c) == FMul(Two, FSub(NN_yhat(c), c.y.data[1]))

NN_g0(c, j) == IF NN_z0(c, j) <= 0 THEN 0 ELSE FMul(NN_g1(c), c.pre[3].data[j])

\* C3: NeuralRegression.update_weight leaves every parameter at
\* param - lr * grad_param, all gradients taken at the parameters before the
\* call: grad_W1 = outer(h0, g1), grad_b1 = g1, g0 = g1 . W1^T zeroed where
\* z0 <= 0, grad_W0 = outer(x, g0), grad_b0 = g0.
C3_NeuralUpdate ==
    (model.kind = "nn" /\ Len(calls) > 0) =>
        LET c == LastUpdate
            H == NN_H(c)
            n == Size(c.x)
        IN  c.post =
              << Arr(<<n, H>>, [e \in 1..(n * H) |->
                    FSub(c.pre[1].data[e],
                         FMul(c.lr, FMul(c.x.data[((e - 1) \div H) + 1],
                                         NN_g0(c, ((e - 1) % H) + 1))))]),
                 Arr(<<H>>, [j \in 1..H |->
                    FSub(c.pre[2].data[j], FMul(c.lr, NN_g0(c, j)))]),
                 Arr(<<H, 1>>, [j \in 1..H |->
                    FSub(c.pre[3].data[j], FMul(c.lr, FMul(NN_h0(c, j), NN_g1(c))))]),
                 Arr(<<1>>, <<FSub(c.pre[4].data[1], FMul(c.lr, NN_g1(c)))>>) >>

\* an update of the network in which one hidden unit has z0 = 0 exactly and
\* another z0 < 0, each with a gradient that the ReLU derivative cuts off
C3_Witness ==
    /\ model.kind = "nn"
    /\ Len(calls) > 1
    /\ \E c \in {calls[i] : i \in 1..Len(calls)} :
          \E j \in 1..NN_H(c) : NN_z0(c, j) = 0 /\ FMul(NN_g1(c), c.pre[3].data[j]) # 0
    /\ \E j \in 1..NN_H(LastUpdate) :
          /\ NN_z0(LastUpdate, j) < 0
          /\ FMul(LastUpdate.lr, FMul(NN_g1(LastUpdate), LastUpdate.pre[3].data[j])) # 0
    /\ LastUpdate.post # LastUpdate.pre

\* C4: LinearRegression.update_weight leaves w - lr * 2 * (dot(x, w) - y) * x
\* as the model's weight vector and returns it; a new model's weights are zeros.
C4_LinearUpdate ==
    model.kind = "linear" =>
        /\ Len(calls) = 0 => heap[model.w] = Vec([j \in 1..n_features(opt.model) |-> 0])
        /\ Len(calls) > 0 =>
              LET c == LastUpdate
                  w == c.pre[1].data
                  g == FMul(Two, FSub(DotF(c.x.data, w), c.y.data[1]))
              IN  /\ c.post = <<Vec([j \in 1..Len(w) |->
                                   FSub(w[j], FMul(c.lr, FMul(g, c.x.data[j])))])>>
                  /\ heap[model.w] = c.post[1]
        /\ last.op = "update_weight" => last.ret_refs = <<model.w>>

\* a second update of the linear model, which moved every weight
C4_Witness ==
    /\ model.kind = "linear"
    /\ last.op = "update_weight"
    /\ Len(calls) >= 2
    /\ \A j \in 1..3 : LastUpdate.post[1].data[j] # LastUpdate.pre[1].data[j]

\* C7: the shapes of the parameters are those of the construction, whatever
\* methods have been called since.
C7_ShapesFixed ==
    IF model.kind = "linear"
    THEN heap[model.w].shape = <<n_features(opt.model)>>
    ELSE /\ Len(model.weights) = 2 /\ Len(model.biases) = 2
         /\ heap[model.weights[1]].shape = <<n_features(opt.model), opt.hidden_size>>
         /\ heap[model.weights[2]].shape = <<opt.hidden_size, 1>>
         /\ heap[model.biases[1]].shape = <<opt.hidden_size>>
         /\ heap[model.biases[2]].shape = <<1>>

\* both models after a train_epoch and an update of their own (the network
\* with three hidden units here)
C7_Witness ==
    /\ n_calls >= 2
    /\ Len(calls) >= 3
    /\ last.op = "update_weight"
    /\ LastUpdate.post # LastUpdate.pre
    /\ opt.model = "nn" /\ opt.hidden_size = 3

\* the errors yhat - y of the latest evaluate call, and their squares
EvalError(i) == FSub(predict(heap, model, last.X).data[i], last.y.data[i])

EvalSquare(i) == FMul(EvalError(i), EvalError(i))

\* the squared errors add up, taken in the order p, with nothing rounded away
SumExact(p) ==
    \A k \in 1..Len(p) :
        FSum([i \in 1..Len(p) |-> EvalSquare(p[i])], k)
            = ISum([i \in 1..Len(p) |-> EvalSquare(p[i])], k)

\* C8 as the claim states it: evaluate returns 0 exactly when the predictions
\* equal the targets, and returns the same for every reordering of the rows.
C8_ZeroIffEqual_PermutationInvariant ==
    last.op = "evaluate" =>
        LET n == last.y.shape[1]
        IN  /\ last.ret_val = 0 <=> \A i \in 1..n : predict(heap, model, last.X).data[i] = last.y.data[i]
            /\ \A p \in np_random_permutation(n) :
                  evaluate(heap, model, Take(last.X, p), Take(last.y, p)) = last.ret_val

\* C8, amended: evaluate returns 0 when the predictions equal the targets; when
\* it returns 0 every squared error is at most n smallest positive floats (it
\* underflows); and a reordering of the rows whose sum of squared errors is
\* exact, as the sum in the given order is, returns the same.
C8_Evaluate ==
    last.op = "evaluate" =>
        LET n == last.y.shape[1]
            id == [i \in 1..n |-> i]
        IN  /\ (\A i \in 1..n : predict(heap, model, last.X).data[i] = last.y.data[i])
                  => last.ret_val = 0
            /\ last.ret_val = 0 => \A i \in 1..n : EvalError(i) * EvalError(i) <= n * One
            /\ \A p \in np_random_permutation(n) :
                  (SumExact(id) /\ SumExact(p))
                      => evaluate(heap, model, Take(last.X, p), Take(last.y, p)) = last.ret_val

\* evaluate on three rows returned a nonzero error, and the squared errors
\* add up exactly in the given order and in an order with another last row
C8_Witness ==
    /\ last.op = "evaluate"
    /\ last.y.shape[1] = 3
    /\ last.ret_val # 0
    /\ SumExact(<<1, 2, 3>>)
    /\ \E p \in np_random_permutation(3) :
          p[3] # 3 /\ SumExact(p) /\ EvalSquare(p[3]) # EvalSquare(3)

\* C9 as the claim states it: the weight vector the linear model holds after
\* update_weight is the object it held before, so that object shows the
\* updated weights.
C9_SameObject ==
    (model.kind = "linear" /\ last.op = "update_weight") =>
        /\ model.w = last.pre_w
        /\ heap[last.pre_w] = LastUpdate.post[1]

\* C9, amended: LinearRegression.update_weight binds the model's w to a new
\* array holding the updated weights and returns that array; the array the
\* model held before, and every other array, keeps its values.
C9_Rebinds ==
    (model.kind = "linear" /\ last.op = "update_weight") =>
        /\ model.w # last.pre_w
        /\ model.w \notin DOMAIN last.pre_heap
        /\ \A r \in DOMAIN last.pre_heap : heap[r] = last.pre_heap[r]
        /\ heap[last.pre_w] = LastUpdate.pre[1]
        /\ heap[model.w] = LastUpdate.post[1]
        /\ last.ret_refs = <<model.w>>

\* a second update of the linear model with new weights: the array returned
\* by the first update still holds the weights it returned
C9_Witness ==
    /\ model.kind = "linear"
    /\ last.op = "update_weight"
    /\ Len(calls) = 2
    /\ LastUpdate.post # LastUpdate.pre
    /\ heap[last.pre_w] = calls[1].post[1]
    /\ heap[last.pre_w] # heap[model.w]

\* the error dot(x, w) - y of the example of the update c at the weights w
ExampleError(c, w) == FSub(DotF(c.x.data, w.data), c.y.data[1])

\* the error at w is computed with nothing rounded away
ErrorExact(c, w) ==
    /\ DotExact(c.x.data, w.data)
    /\ FSub(DotF(c.x.data, w.data), c.y.data[1]) = DotF(c.x.data, w.data) - c.y.data[1]

\* the update c is computed with nothing rounded away
UpdateExact(c) ==
    LET e == ExampleError(c, c.pre[1])
        g == FMul(Two, e)
    IN  /\ ErrorExact(c, c.pre[1])
        /\ ExactMul(Two, e)
        /\ \A j \in 1..Size(c.x) :
              /\ ExactMul(g, c.x.data[j])
              /\ ExactMul(c.lr, FMul(g, c.x.data[j]))
              /\ FSub(c.pre[1].data[j], FMul(c.lr, FMul(g, c.x.data[j])))
                    = c.pre[1].data[j] - FMul(c.lr, FMul(g, c.x.data[j]))

\* 0 < lr * dot(x, x) < 1, exactly
SmallRate(c) ==
    LET xx == ISum([k \in 1..Size(c.x) |-> c.x.data[k] * c.x.data[k]], Size(c.x))
    IN  0 < c.lr * xx /\ c.lr * xx < One * One * One

\* the squared error of c's example is not larger after the update than
\* before, and smaller if it was not zero
ErrorReduced(c) ==
    LET before == ExampleError(c, c.pre[1])
        after == ExampleError(c, c.post[1])
    IN  /\ after * after <= before * before
        /\ before # 0 => after * after < before * before

\* C10 as the claim states it: an update of the linear model on (x, y) with
\* 0 < lr * dot(x, x) < 1 does not increase the squared error of (x, y), and
\* decreases it unless it is zero.
C10_ErrorDecreases ==
    model.kind = "linear" =>
        \A i \in 1..Len(calls) : SmallRate(calls[i]) => ErrorReduced(calls[i])

\* C10, amended: the same, for the updates in which the floating-point
\* arithmetic of the update and of the two errors rounds nothing.
C10_ErrorDecreasesExact ==
    model.kind = "linear" =>
        \A i \in 1..Len(calls) :
            (/\ SmallRate(calls[i])
             /\ UpdateExact(calls[i])
             /\ ErrorExact(calls[i], calls[i].post[1]))
                => ErrorReduced(calls[i])

\* two exact updates on the same example, the error nonzero before each one
C10_Witness ==
    /\ model.kind = "linear"
    /\ Len(calls) = 2
    /\ calls[1].x = calls[2].x /\ calls[1].y = calls[2].y /\ calls[1].lr = calls[2].lr
    /\ \A i \in 1..2 :
          /\ SmallRate(calls[i])
          /\ UpdateExact(calls[i])
          /\ ErrorExact(calls[i], calls[i].post[1])
          /\ ExampleError(calls[i], calls[i].pre[1]) # 0

====
